---- MODULE Spec2Model ----
(***************************************************************************)
(* TreeSitterSegmenter (tree_sitter_segmenter.py) with the Elixir backend  *)
(* (elixir.py).  The engine holds the source text and its splitlines();    *)
(* is_valid, extract_functions_classes and simplify_code each parse the    *)
(* text again and run a query.  The parser is an external collaborator: a  *)
(* node is a byte span of the source, its start and end rows are the       *)
(* number of newlines before the span's ends, its text is the spanned      *)
(* bytes.  Each method is one action: the engine is single-threaded and a   *)
(* call runs to its return.  The result variables keep, next to the value  *)
(* returned, what the call did: the sorted candidates, the candidates that *)
(* passed the overlap test and the claimed lines at the return.            *)
(***************************************************************************)
EXTENDS Integers, Sequences, FiniteSets, TLC

MaxCodeLen == 3
MaxNodes == 2
MaxErrors == 1

\* the characters a source is written with.  A text is a sequence of characters;
\* a literal of the program stands in it as one element
Alphabet == {"a", "\n"}

VARIABLES
    code,              \* self.code: the source text, a sequence of characters
    source_lines,      \* self.source_lines
    chunk_captures,    \* what cursor.captures returns for the chunk query, flattened
    error_captures,    \* number of nodes captured by "(ERROR) @error"
    valid_result,      \* the last call of is_valid
    extract_result,    \* the last call of extract_functions_classes
    simplify_result    \* the last call of simplify_code

vars == <<code, source_lines, chunk_captures, error_captures,
          valid_result, extract_result, simplify_result>>

Min(a, b) == IF a < b THEN a ELSE b

-----------------------------------------------------------------------------
\* str.splitlines() for "\n" line ends: a final newline opens no further line
RECURSIVE SplitAcc(_, _, _)
SplitAcc(s, done, cur) ==
    IF s = <<>>
    THEN IF cur = <<>> THEN done ELSE Append(done, cur)
    ELSE IF Head(s) = "\n"
         THEN SplitAcc(Tail(s), Append(done, cur), <<>>)
         ELSE SplitAcc(Tail(s), done, Append(cur, Head(s)))

SplitLines(s) == SplitAcc(s, <<>>, <<>>)

\* bytes(self.code, encoding="UTF-8") and bytes.decode("UTF-8") on these characters
EncodeChar(c) == IF c = "\n" THEN 10 ELSE 97
DecodeByte(b) == IF b = 10 THEN "\n" ELSE "a"
Encode(s) == [k \in 1..Len(s) |-> EncodeChar(s[k])]
Decode(bs) == [k \in 1..Len(bs) |-> DecodeByte(bs[k])]

\* the row of a byte offset: the number of newline bytes before it
Row(src, off) == Cardinality({k \in 1..off : EncodeChar(src[k]) = 10})

\* a node of the tree spans the bytes [s, e) of the source; what the methods read of
\* it is start_point[0], end_point[0] and text
NodeOf(src, s, e) ==
    [start_line |-> Row(src, s), end_line |-> Row(src, e),
     text |-> SubSeq(Encode(src), s + 1, e)]

Nodes(src) == UNION {{NodeOf(src, s, e) : e \in s..Len(src)} : s \in 0..Len(src)}

\* a sort by descending start line
ExtractKeyLess_Descending(a, b) ==
    \/ a.start_line > b.start_line
    \/ /\ a.start_line = b.start_line
       /\ -(a.end_line - a.start_line) < -(b.end_line - b.start_line)

\* sort key of extract_functions_classes: start line, then larger range first
ExtractKeyLess(a, b) ==
    \/ a.start_line < b.start_line
    \/ /\ a.start_line = b.start_line
       /\ -(a.end_line - a.start_line) < -(b.end_line - b.start_line)

\* a sort that puts the smaller range first on the same start line
SimplifyKeyLess_SmallFirst(a, b) ==
    \/ a.start_line < b.start_line
    \/ /\ a.start_line = b.start_line
       /\ (a.end_line - a.start_line) < (b.end_line - b.start_line)

\* sort key of simplify_code
SimplifyKeyLess(a, b) ==
    \/ a.start_line < b.start_line
    \/ /\ a.start_line = b.start_line
       /\ -(a.end_line - a.start_line) < -(b.end_line - b.start_line)

KeyLess(method, a, b) ==
    IF method = "extract" THEN ExtractKeyLess(a, b) ELSE SimplifyKeyLess(a, b)

\* list.sort(key=...): stable, an element goes behind the elements not greater than it.
\* A node object is named by its position in the captures, so all_nodes is a
\* sequence of such positions
RECURSIVE InsertSorted(_, _, _, _)
InsertSorted(method, caps, sorted, x) ==
    IF sorted = <<>> THEN <<x>>
    ELSE IF KeyLess(method, caps[x], caps[Head(sorted)])
         THEN <<x>> \o sorted
         ELSE <<Head(sorted)>> \o InsertSorted(method, caps, Tail(sorted), x)

\* all_nodes after the sort of the first n captures
RECURSIVE SortNodes(_, _, _)
SortNodes(method, caps, n) ==
    IF n = 0 THEN <<>>
    ELSE InsertSorted(method, caps, SortNodes(method, caps, n - 1), n)

\* range(start_line, end_line + 1)
LineRange(start_line, end_line) == start_line..end_line

\* ElixirSegmenter.make_line_comment
make_line_comment(text) == <<"# ">> \o text

\* f"Code for: {line}"
CodeFor(line) == <<"Code for: ">> \o line

\* the value of a slot set to None
None == <<"None">>

-----------------------------------------------------------------------------
\* a test that lets one error node pass
IsValidValue_AtMostOne(n_errors) == n_errors <= 1

\* is_valid: len(captures.get("error", [])) == 0
IsValidValue(n_errors) == n_errors = 0

is_valid ==
    /\ valid_result' = [called |-> TRUE, value |-> IsValidValue(error_captures)]
    /\ UNCHANGED <<code, source_lines, chunk_captures, error_captures,
                   extract_result, simplify_result>>

-----------------------------------------------------------------------------
\* extract_functions_classes

\* any(line in processed_lines for line in lines)
ExtractOverlaps(lines, processed) == \E line \in lines : line \in processed

\* a claim of the start line alone
ExtractClaim_StartOnly(processed, lines, text) ==
    processed \cup {l \in lines : \A m \in lines : l <= m}

\* a claim made only for a node that has text
ExtractClaim_IfText(processed, lines, text) ==
    IF text # <<>> THEN processed \cup lines ELSE processed

\* processed_lines.update(lines), done before the text of the node is looked at
ExtractClaim(processed, lines, text) == processed \cup lines

\* if node.text: chunks.append(node.text.decode("UTF-8"))
ExtractAppend(chs, text) == IF text # <<>> THEN Append(chs, Decode(text)) ELSE chs

\* one iteration of the for loop over all_nodes, at the node captures[i]; st.from
\* lists the nodes whose text was appended, st.acc those that passed the overlap test
ExtractIter(node, i, st) ==
    LET lines == LineRange(node.start_line, node.end_line)
    IN  IF ExtractOverlaps(lines, st.processed)
        THEN [st EXCEPT !.k = @ + 1]
        ELSE [k |-> st.k + 1,
              processed |-> ExtractClaim(st.processed, lines, node.text),
              chunks |-> ExtractAppend(st.chunks, node.text),
              from |-> IF node.text # <<>> THEN Append(st.from, i) ELSE st.from,
              acc |-> st.acc \cup {i}]

RECURSIVE ExtractLoop(_, _, _)
ExtractLoop(caps, all_nodes, st) ==
    IF st.k > Len(all_nodes) THEN st
    ELSE ExtractLoop(caps, all_nodes, ExtractIter(caps[all_nodes[st.k]], all_nodes[st.k], st))

\* the locals at "return chunks"
ExtractRun(caps) ==
    ExtractLoop(caps, SortNodes("extract", caps, Len(caps)),
                [k |-> 1, processed |-> {}, chunks |-> <<>>, from |-> <<>>, acc |-> {}])

extract_functions_classes ==
    /\ \E run \in {ExtractRun(chunk_captures)} :
           extract_result' =
               [called |-> TRUE,
                value |-> run.chunks,
                first |-> IF extract_result.called THEN extract_result.first ELSE run.chunks,
                accepted |-> run.acc,
                from |-> run.from,
                processed |-> run.processed]
    /\ UNCHANGED <<code, source_lines, chunk_captures, error_captures,
                   valid_result, simplify_result>>

-----------------------------------------------------------------------------
\* simplify_code

\* any(line in processed_lines for line in lines)
SimplifyOverlaps(lines, processed) == \E line \in lines : line \in processed

\* simplified_lines = self.source_lines, the same list
SimplifiedLinesIsAlias == FALSE

\* simplified_lines = self.source_lines[:] is a list of its own
SimplifiedLinesIsCopy == TRUE

\* no clamp
ClampEnd_None(end_line, n_lines) == end_line

\* end_line = min(end_line, max_line), max_line = len(simplified_lines) - 1
ClampEnd(end_line, n_lines) == Min(end_line, n_lines - 1)

\* range(start_line + 1, end_line): the last line of the chunk stays
BlankedLines_Short(start_line, end_line, n_lines) ==
    {line_num \in (start_line + 1)..(end_line - 1) : line_num < n_lines}

\* the slots set to None: range(start_line + 1, end_line + 1) under line_num < len
BlankedLines(start_line, end_line, n_lines) ==
    {line_num \in (start_line + 1)..end_line : line_num < n_lines}

\* a placeholder made of the last line of the chunk
Replaced_EndLine(work, src_lines, start_line, end_line) ==
    IF start_line < Len(work)
    THEN [k \in 1..Len(work) |->
            IF k - 1 = start_line
            THEN make_line_comment(CodeFor(src_lines[end_line + 1]))
            ELSE IF k - 1 \in BlankedLines(start_line, end_line, Len(work))
                 THEN None
                 ELSE work[k]]
    ELSE work

\* the body of "if start_line < len(simplified_lines)"
Replaced(work, src_lines, start_line, end_line) ==
    IF start_line < Len(work)
    THEN [k \in 1..Len(work) |->
            IF k - 1 = start_line
            THEN make_line_comment(CodeFor(src_lines[start_line + 1]))
            ELSE IF k - 1 \in BlankedLines(start_line, end_line, Len(work))
                 THEN None
                 ELSE work[k]]
    ELSE work

\* one iteration of the for loop over all_nodes, at the node captures[i]; st.src is
\* self.source_lines, st.work is simplified_lines
SimplifyIter(node, i, st) ==
    LET start_line == node.start_line
        end_line == ClampEnd(node.end_line, Len(st.work))
        lines == LineRange(start_line, end_line)
    IN  IF SimplifyOverlaps(lines, st.processed)
        THEN [st EXCEPT !.k = @ + 1]
        ELSE LET work == Replaced(st.work, st.src, start_line, end_line)
             IN  [k |-> st.k + 1,
                  processed |-> st.processed \cup lines,
                  work |-> work,
                  src |-> IF SimplifiedLinesIsCopy THEN st.src ELSE work,
                  acc |-> st.acc \cup {i}]

RECURSIVE SimplifyLoop(_, _, _)
SimplifyLoop(caps, all_nodes, st) ==
    IF st.k > Len(all_nodes) THEN st
    ELSE SimplifyLoop(caps, all_nodes, SimplifyIter(caps[all_nodes[st.k]], all_nodes[st.k], st))

\* the locals and self.source_lines at the return statement
SimplifyRun(src_lines, caps) ==
    SimplifyLoop(caps, SortNodes("simplify", caps, Len(caps)),
                 [k |-> 1, processed |-> {}, work |-> src_lines, src |-> src_lines,
                  acc |-> {}])

\* "\n".join(lines)
RECURSIVE Join(_)
Join(lines) ==
    IF lines = <<>> THEN <<>>
    ELSE IF Len(lines) = 1 THEN lines[1]
         ELSE lines[1] \o <<"\n">> \o Join(Tail(lines))

\* a None slot kept as an empty line
Kept_Blank(work) == [k \in 1..Len(work) |-> IF work[k] = None THEN <<>> ELSE work[k]]

\* line for line in simplified_lines if line is not None
Kept(work) == SelectSeq(work, LAMBDA line : line # None)

simplify_code ==
    /\ \E run \in {SimplifyRun(source_lines, chunk_captures)} :
       \E ret \in {Join(Kept(run.work))} :
           /\ source_lines' = run.src
           /\ simplify_result' =
                  [called |-> TRUE,
                   repeated |-> simplify_result.called,
                   value |-> ret,
                   first |-> IF simplify_result.called THEN simplify_result.first ELSE ret,
                   accepted |-> run.acc,
                   lines |-> run.work,
                   processed |-> run.processed]
    /\ UNCHANGED <<code, chunk_captures, error_captures, valid_result, extract_result>>

-----------------------------------------------------------------------------
\* TreeSitterSegmenter.__init__ on a source, with what the parser makes of it
Init ==
    /\ code \in UNION {[1..n -> Alphabet] : n \in 0..MaxCodeLen}
    /\ source_lines = SplitLines(code)
    /\ chunk_captures \in UNION {[1..n -> Nodes(code)] : n \in 0..MaxNodes}
    /\ error_captures \in 0..MaxErrors
    /\ valid_result = [called |-> FALSE, value |-> FALSE]
    /\ extract_result = [called |-> FALSE, value |-> <<>>, first |-> <<>>,
                         accepted |-> {}, from |-> <<>>, processed |-> {}]
    /\ simplify_result = [called |-> FALSE, repeated |-> FALSE, value |-> <<>>,
                          first |-> <<>>, accepted |-> {}, lines |-> <<>>,
                          processed |-> {}]

Next ==
    \/ is_valid
    \/ extract_functions_classes
    \/ simplify_code

Spec == Init /\ [][Next]_vars
-----------------------------------------------------------------------------
\* What the properties below speak of

\* the number of lines of the source, len(self.source_lines)
NLines == Len(source_lines)

\* the inclusive line range [start line, end line] of the candidate captures[i]
NodeLines(i) == chunk_captures[i].start_line..chunk_captures[i].end_line

\* the lines of the source in that range: the range with its end clamped
SourceLinesOf(i) == {l \in NodeLines(i) : l < NLines}

HasText(i) == chunk_captures[i].text # <<>>

\* the Elixir comment rendering of "Code for: " followed by a line
Placeholder(line) == <<"# ", "Code for: ">> \o line

\* the chunks of a simplify_code call: the candidates that passed the overlap test
\* and start on a line of the source
SimplifyChunks == {i \in simplify_result.accepted : chunk_captures[i].start_line < NLines}

\* the lines simplify_code joins, and those among them that are placeholders
OutputLines == SelectSeq(simplify_result.lines, LAMBDA line : line # None)
PlaceholderAt == {l \in 1..Len(simplify_result.lines) :
                     /\ simplify_result.lines[l] # None
                     /\ simplify_result.lines[l] # source_lines[l]}

RECURSIVE SumSaved(_)
SumSaved(S) ==
    IF S = {} THEN 0
    ELSE LET i == CHOOSE x \in S : TRUE
         IN  (Cardinality(SourceLinesOf(i)) - 1) + SumSaved(S \ {i})

-----------------------------------------------------------------------------
\* C1: the candidates accepted by one extract_functions_classes call are pairwise
\* line-disjoint: no line index lies in the [start line, end line] range of two of them
C1_NonOverlap ==
    extract_result.called =>
        \A i, j \in extract_result.accepted :
            i # j => NodeLines(i) \cap NodeLines(j) = {}

\* two chunks were accepted and returned
C1_Witness ==
    /\ extract_result.called
    /\ Len(extract_result.value) = 2
    /\ Cardinality(extract_result.accepted) = 2

\* C2: the returned list holds the texts of the accepted candidates that have text,
\* and of two returned chunks the earlier one has the strictly smaller start line,
\* whatever the order of the captures
C2_Order ==
    extract_result.called =>
        LET from == extract_result.from
        IN  /\ Len(extract_result.value) = Len(from)
            /\ {from[k] : k \in 1..Len(from)} = {i \in extract_result.accepted : HasText(i)}
            /\ \A k \in 1..Len(from) :
                   extract_result.value[k] = Decode(chunk_captures[from[k]].text)
            /\ \A k, l \in 1..Len(from) :
                   k < l => chunk_captures[from[k]].start_line
                                < chunk_captures[from[l]].start_line

\* two chunks were returned though the parser gave the later one first
C2_Witness ==
    /\ extract_result.called
    /\ Len(extract_result.value) = 2
    /\ Len(chunk_captures) = 2
    /\ chunk_captures[1].start_line > chunk_captures[2].start_line

\* C3: the number of lines simplify_code joins is the number of source lines minus the
\* sum over the accepted chunks of (lines of the chunk - 1), and the returned text
\* holds one newline less than lines
C3_LineCount ==
    simplify_result.called =>
        /\ Len(OutputLines) = NLines - SumSaved(SimplifyChunks)
        /\ Len(OutputLines) > 0 =>
               Cardinality({k \in 1..Len(simplify_result.value) :
                                simplify_result.value[k] = "\n"}) = Len(OutputLines) - 1

\* a chunk of more than one line was collapsed and another line was kept
C3_Witness ==
    /\ simplify_result.called
    /\ \E i \in SimplifyChunks : Cardinality(SourceLinesOf(i)) >= 2
    /\ Len(OutputLines) >= 2
    /\ Len(OutputLines) < NLines

\* C4: in the output each accepted chunk's line range is replaced by one line, the
\* comment rendering of "Code for: " and the source line at the chunk's start; every
\* line outside the chunks is there unchanged and in its place; nothing else is there
C4_Frame ==
    simplify_result.called =>
        /\ Len(simplify_result.lines) = NLines
        /\ \A l \in 0..(NLines - 1) :
               simplify_result.lines[l + 1] =
                   IF \E i \in SimplifyChunks : chunk_captures[i].start_line = l
                   THEN Placeholder(source_lines[l + 1])
                   ELSE IF \E i \in SimplifyChunks : l \in SourceLinesOf(i)
                        THEN None
                        ELSE source_lines[l + 1]
        /\ Cardinality(PlaceholderAt) = Cardinality(SimplifyChunks)
        /\ simplify_result.value = Join(OutputLines)

\* a chunk of two lines was replaced by its placeholder and a line outside it was kept
C4_Witness ==
    /\ simplify_result.called
    /\ \E i \in SimplifyChunks : Cardinality(SourceLinesOf(i)) >= 2
    /\ Cardinality(PlaceholderAt) = 1
    /\ \E l \in 0..(NLines - 1) : \A i \in SimplifyChunks : l \notin SourceLinesOf(i)

\* C5: after any sequence of calls the engine's source_lines are those of the source,
\* and every call of extract_functions_classes or simplify_code returned what the
\* first such call returned
C5_Idempotent ==
    /\ source_lines = SplitLines(code)
    /\ extract_result.called => extract_result.value = extract_result.first
    /\ simplify_result.called => simplify_result.value = simplify_result.first

\* simplify_code replaced a chunk, was called again, and the other methods were called
C5_Witness ==
    /\ simplify_result.repeated
    /\ SimplifyChunks # {}
    /\ extract_result.called
    /\ extract_result.value # <<>>
    /\ valid_result.called

\* the candidates are blocks with text, pairwise line-disjoint, covering every line
Blocks ==
    /\ Len(chunk_captures) >= 1
    /\ \A i \in 1..Len(chunk_captures) : HasText(i)
    /\ \A i, j \in 1..Len(chunk_captures) : i # j => NodeLines(i) \cap NodeLines(j) = {}
    /\ \A l \in 0..(NLines - 1) : \E i \in 1..Len(chunk_captures) : l \in NodeLines(i)

\* the place of a block in source order
Rank(i) == 1 + Cardinality({j \in 1..Len(chunk_captures) :
                               chunk_captures[j].start_line < chunk_captures[i].start_line})

\* C6: on such blocks extract_functions_classes returns one string per block, the
\* block's text, in source order, and simplify_code returns one line per block, the
\* comment rendering of "Code for: " and the block's first line, in the same order
C6_Blocks ==
    Blocks =>
        /\ extract_result.called =>
               /\ Len(extract_result.value) = Len(chunk_captures)
               /\ \A i \in 1..Len(chunk_captures) :
                      extract_result.value[Rank(i)] = Decode(chunk_captures[i].text)
        /\ simplify_result.called =>
               /\ Len(OutputLines) = Len(chunk_captures)
               /\ \A i \in 1..Len(chunk_captures) :
                      OutputLines[Rank(i)] =
                          Placeholder(source_lines[chunk_captures[i].start_line + 1])
               /\ simplify_result.value = Join(OutputLines)

\* two blocks, the first of two lines, went through both methods
C6_Witness ==
    /\ Blocks
    /\ Len(chunk_captures) = 2
    /\ \E i \in 1..2 : chunk_captures[i].end_line > chunk_captures[i].start_line
    /\ extract_result.called
    /\ simplify_result.called

\* C7: is_valid returns true exactly when the error query captured no node, false
\* being a return value; after it returned false the two other methods return what
\* they return for the source and the captures alone
C7_Valid ==
    /\ valid_result.value \in BOOLEAN
    /\ valid_result.called => (valid_result.value <=> error_captures = 0)
    /\ (valid_result.called /\ ~valid_result.value) =>
           /\ extract_result.called =>
                  extract_result.value = ExtractRun(chunk_captures).chunks
           /\ simplify_result.called =>
                  simplify_result.value
                      = Join(Kept(SimplifyRun(SplitLines(code), chunk_captures).work))

\* is_valid returned false and both other methods returned their results
C7_Witness ==
    /\ valid_result.called
    /\ ~valid_result.value
    /\ error_captures > 0
    /\ extract_result.called
    /\ extract_result.value # <<>>
    /\ simplify_result.called
    /\ SimplifyChunks # {}

\* C8 as stated: a candidate without text claims no line, so that a candidate with
\* text whose lines lie in no accepted chunk with text is accepted
C8_Original ==
    extract_result.called =>
        \A j \in 1..Len(chunk_captures) :
            (/\ HasText(j)
             /\ \A i \in extract_result.accepted :
                    (HasText(i) /\ i # j) => NodeLines(i) \cap NodeLines(j) = {})
            => j \in extract_result.accepted

\* C8 amended: a candidate without text that passes the overlap test is not appended
\* but its lines are claimed like those of any accepted candidate, and a candidate is
\* rejected exactly for overlapping an accepted one, with or without text
C8_Amended ==
    extract_result.called =>
        /\ extract_result.processed = UNION {NodeLines(i) : i \in extract_result.accepted}
        /\ Len(extract_result.value)
               = Cardinality({i \in extract_result.accepted : HasText(i)})
        /\ \A j \in 1..Len(chunk_captures) :
               j \notin extract_result.accepted <=>
                   \E i \in extract_result.accepted :
                       i # j /\ NodeLines(i) \cap NodeLines(j) # {}

\* a candidate without text was accepted and a candidate with text on its line was
\* rejected for it
C8_Witness ==
    /\ extract_result.called
    /\ extract_result.value = <<>>
    /\ \E i \in extract_result.accepted, j \in 1..Len(chunk_captures) :
           /\ ~HasText(i)
           /\ HasText(j)
           /\ j \notin extract_result.accepted
           /\ NodeLines(i) \cap NodeLines(j) # {}

\* C9 as stated, for the accepted chunks that have text: in both methods every line
\* index claimed for such a chunk is a line of the source
C9_Original ==
    /\ extract_result.called =>
           \A i \in extract_result.accepted :
               HasText(i) =>
                   (NodeLines(i) \cap extract_result.processed) \subseteq 0..(NLines - 1)
    /\ simplify_result.called =>
           \A i \in simplify_result.accepted :
               HasText(i) =>
                   (NodeLines(i) \cap simplify_result.processed) \subseteq 0..(NLines - 1)

\* C9 amended: simplify_code clamps the end line, so its claimed indices are lines of
\* the source; extract_functions_classes does not clamp and claims the node's own
\* range, which reaches the index after the last line and no further
C9_Amended ==
    /\ simplify_result.called =>
           /\ simplify_result.processed \subseteq 0..(NLines - 1)
           /\ simplify_result.processed
                  = UNION {SourceLinesOf(i) : i \in simplify_result.accepted}
    /\ extract_result.called =>
           /\ extract_result.processed \subseteq 0..NLines
           /\ extract_result.processed = UNION {NodeLines(i) : i \in extract_result.accepted}

\* a node that ends after the last line was accepted by both methods
C9_Witness ==
    /\ simplify_result.called
    /\ extract_result.called
    /\ NLines >= 1
    /\ NLines \in extract_result.processed
    /\ \E i \in SimplifyChunks : chunk_captures[i].end_line >= NLines

\* C10 as stated: the candidates simplify_code replaces by a placeholder are the
\* candidates extract_functions_classes returns, and there are as many placeholder
\* lines as returned chunks
C10_Original ==
    (extract_result.called /\ simplify_result.called) =>
        /\ SimplifyChunks = {i \in extract_result.accepted : HasText(i)}
        /\ Cardinality(PlaceholderAt) = Len(extract_result.value)

\* C10 amended: the candidates simplify_code replaces by a placeholder are the
\* candidates that pass the overlap test of extract_functions_classes and start on a
\* line of the source, those without text included; the placeholder lines are as many
\* as the returned chunks and the accepted candidates without text together
C10_Amended ==
    (extract_result.called /\ simplify_result.called) =>
        /\ SimplifyChunks
               = {i \in extract_result.accepted : chunk_captures[i].start_line < NLines}
        /\ Cardinality(PlaceholderAt)
               = Len(extract_result.value)
                 + Cardinality({i \in extract_result.accepted :
                                    ~HasText(i) /\ chunk_captures[i].start_line < NLines})

\* both methods ran on a chunk with text and a candidate without text, both accepted
C10_Witness ==
    /\ extract_result.called
    /\ simplify_result.called
    /\ Len(extract_result.value) = 1
    /\ Cardinality(PlaceholderAt) = 2
====
